---------------------------- MODULE Spec2Model ----------------------------
(***************************************************************************)
(* Model of src/app.py: the integrated irrigation dashboard.               *)
(*                                                                         *)
(*  - the pure functions calculate_kcb_from_ndvi and calculate_irrigation  *)
(*    (KcbSpec, IrrSpec);                                                  *)
(*  - the "Run Integrated Simulation" handler, run by concurrent user      *)
(*    sessions against the three gateways and the one shared spreadsheet   *)
(*    workbook driven by run_aquacrop_simulation_ospy (Spec).              *)
(*                                                                         *)
(* Python floats are modelled as exact rationals <<numerator, denominator>>*)
(* with a positive denominator, in lowest terms.                           *)
(***************************************************************************)
EXTENDS Integers, Sequences, FiniteSets, TLC

VARIABLES sess, wb, env, kcbCall, irrCall

vars == <<sess, wb, env, kcbCall, irrCall>>

\* Python values that may be None carry a tag
None            == [tag |-> "None"]
Float(r)        == [tag |-> "float", v |-> r]
DataFrame(rows) == [tag |-> "DataFrame", rows |-> rows]
IsNone(x)       == x.tag = "None"

-----------------------------------------------------------------------------
(* Rational arithmetic                                                     *)

Abs(x) == IF x < 0 THEN -x ELSE x

RECURSIVE Gcd(_, _)
Gcd(a, b) == IF b = 0 THEN a ELSE Gcd(b, a % b)

\* the rational n/d (d # 0) in lowest terms with a positive denominator
R(n, d) ==
    LET g == Gcd(Abs(n), Abs(d))
        s == IF d < 0 THEN -1 ELSE 1
    IN  <<(s * n) \div g, (s * d) \div g>>

RAdd(a, b) == R(a[1] * b[2] + b[1] * a[2], a[2] * b[2])
RSub(a, b) == R(a[1] * b[2] - b[1] * a[2], a[2] * b[2])
RMul(a, b) == R(a[1] * b[1], a[2] * b[2])
RDiv(a, b) == R(a[1] * b[2], a[2] * b[1])
RLe(a, b)  == a[1] * b[2] <= b[1] * a[2]
RLt(a, b)  == a[1] * b[2] < b[1] * a[2]
RIsZero(a) == a[1] = 0
RMin(a, b) == IF RLt(b, a) THEN b ELSE a
RMax(a, b) == IF RLt(a, b) THEN b ELSE a

RECURSIVE RPow(_, _)
RPow(a, e) == IF e = 0 THEN R(1, 1) ELSE RMul(a, RPow(a, e - 1))

-----------------------------------------------------------------------------
(* Kcb & Irrigation Module                                                 *)

\* the crop profiles of calculate_kcb_from_ndvi
params ==
    [Rice   |-> [Kcb_max |-> R(100, 100), Kcb_min |-> R(15, 100),
                 VI_max |-> R(90, 100), VI_min |-> R(10, 100), eta |-> 1],
     Custom |-> [Kcb_max |-> R(100, 100), Kcb_min |-> R(15, 100),
                 VI_max |-> R(90, 100), VI_min |-> R(10, 100), eta |-> 1]]

\* params.get(crop, params["Custom"])
profile(crop) == IF crop \in DOMAIN params THEN params[crop] ELSE params["Custom"]

\* faulty variant: the clamp left out
clamp_ndvi_unclamped(ndvi, p) == ndvi
\* ndvi = max(VI_min, min(ndvi, VI_max))
clamp_ndvi(ndvi, p) == RMax(p.VI_min, RMin(ndvi, p.VI_max))

calculate_kcb_from_ndvi(ndvi, crop) ==
    LET p     == profile(crop)
        n     == clamp_ndvi(ndvi, p)
        ratio == RDiv(RSub(n, p.VI_min), RSub(p.VI_max, p.VI_min))
    IN  RAdd(RMul(RSub(p.Kcb_max, p.Kcb_min), RPow(ratio, p.eta)), p.Kcb_min)

\* faulty variant: the percentage used as a fraction
efficiency_fraction_percent(efficiency) == R(efficiency, 1)
\* efficiency / 100.0
efficiency_fraction(efficiency) == R(efficiency, 100)

\* returns the tuple, or the exception the float division raises
calculate_irrigation(et0, Kcb, field_area, efficiency) ==
    LET ET_crop_calc   == RMul(et0, Kcb)
        net_irrigation == RMul(RMul(ET_crop_calc, field_area), R(10, 1))
    IN  IF RIsZero(efficiency_fraction(efficiency))
        THEN [kind |-> "raise", exc |-> "ZeroDivisionError"]
        ELSE [kind |-> "return",
              ET_crop_calc |-> ET_crop_calc,
              net_irrigation |-> net_irrigation,
              gross_irrigation |->
                  RDiv(net_irrigation, efficiency_fraction(efficiency))]

-----------------------------------------------------------------------------
(* Weather Data Module: fetch_full_weather_nasa                            *)

Raise(exc)   == [kind |-> "raise", exc |-> exc]
Return(v)    == [kind |-> "return", value |-> v]

WeatherVars == {"T2M_MAX", "T2M_MIN", "PRECTOTCORR", "WS2M", "SOLARAD"}

\* the days of the requested range, in the order the provider lists them
DateSeq == <<"20230601", "20230602">>
Dates   == {DateSeq[i] : i \in DOMAIN DateSeq}

\* a parameter table of the provider: variable -> date-string -> scalar text
FullTable  == [v \in WeatherVars |-> [d \in Dates |-> "25.0"]]
EmptyTable == [v \in WeatherVars |-> [d \in {} |-> "25.0"]]
Drop(t, v, d)   == [t EXCEPT ![v] = [x \in (DOMAIN t[v]) \ {d} |-> t[v][x]]]
Garble(t, v, d) == [t EXCEPT ![v][d] = "n/a"]

WeatherTables ==
    {FullTable, EmptyTable}
      \cup {Drop(FullTable, v, DateSeq[Len(DateSeq)]) : v \in WeatherVars \ {"T2M_MAX"}}
      \cup {Garble(FullTable, v, DateSeq[1]) : v \in WeatherVars}

\* what requests.get can do: raise, or return a response
WeatherResponses ==
    {[kind |-> "ConnectionError"]}
      \cup {[kind |-> "http", status |-> 500, body |-> "text"]}
      \cup {[kind |-> "http", status |-> 200, body |-> "text"]}
      \cup {[kind |-> "http", status |-> 200, body |-> "json", properties |-> FALSE]}
      \cup {[kind |-> "http", status |-> 200, body |-> "json", properties |-> TRUE,
             parameter |-> t] : t \in WeatherTables}

\* float(x) succeeds on numeric text
IsNumericText(x) == x # "n/a"

\* list(weather_params["T2M_MAX"].keys())
KeysOf(col) == SelectSeq(DateSeq, LAMBDA d : d \in DOMAIN col)

\* the record built for dt, or the exception a lookup or float() raises
WeatherRecord(t, dt) ==
    IF \E v \in WeatherVars : dt \notin DOMAIN t[v]
    THEN Raise("KeyError")
    ELSE IF \E v \in WeatherVars : ~IsNumericText(t[v][dt])
    THEN Raise("ValueError")
    ELSE Return([Date     |-> dt,
                 Tmax     |-> t["T2M_MAX"][dt],
                 Tmin     |-> t["T2M_MIN"][dt],
                 Precip   |-> t["PRECTOTCORR"][dt],
                 Wind     |-> t["WS2M"][dt],
                 SolarRad |-> t["SOLARAD"][dt]])

\* the try block of fetch_full_weather_nasa
ParseWeather(body) ==
    IF ~body.properties THEN None                      \* KeyError "properties"
    ELSE LET t     == body.parameter
             dates == KeysOf(t["T2M_MAX"])
             recs  == [i \in DOMAIN dates |-> WeatherRecord(t, dates[i])]
         IN  IF \E i \in DOMAIN recs : recs[i].kind = "raise" THEN None
             ELSE IF dates = <<>> THEN None             \* set_index: KeyError "Date"
             ELSE DataFrame([i \in DOMAIN recs |-> recs[i].value])

fetch_full_weather_nasa(resp) ==
    IF resp.kind = "ConnectionError" THEN Raise("ConnectionError")
    ELSE IF resp.status = 200
    THEN IF resp.body # "json" THEN Raise("JSONDecodeError")
         ELSE Return(ParseWeather(resp))
    ELSE Return(None)

\* every record of a table carries all six columns with a numeric value
FullyPopulated(df) ==
    /\ df.rows # <<>>
    /\ \A i \in DOMAIN df.rows :
          DOMAIN df.rows[i] = {"Date", "Tmax", "Tmin", "Precip", "Wind", "SolarRad"}

-----------------------------------------------------------------------------
(* Remote Sensing Module: fetch_etref_nasa, fetch_ndvi                     *)

\* the PET column of a response: the daily values, in order
PetColumns == {<<>>, <<R(4, 1), R(4, 1)>>, <<R(4, 1), R(6, 1)>>}

EtrefResponses ==
    {[kind |-> "ConnectionError"]}
      \cup {[kind |-> "http", status |-> 500, body |-> "text"]}
      \cup {[kind |-> "http", status |-> 200, body |-> "text"]}
      \cup {[kind |-> "http", status |-> 200, body |-> "json", PET |-> FALSE]}
      \cup {[kind |-> "http", status |-> 200, body |-> "json", PET |-> TRUE,
             values |-> c] : c \in PetColumns}

RECURSIVE RSum(_)
RSum(seq) == IF seq = <<>> THEN R(0, 1) ELSE RAdd(seq[1], RSum(Tail(seq)))

\* the try block of fetch_etref_nasa
ParseEtref(body) ==
    IF ~body.PET THEN None                             \* KeyError
    ELSE IF Len(body.values) = 0 THEN None             \* ZeroDivisionError
    ELSE Float(RDiv(RSum(body.values), R(Len(body.values), 1)))

fetch_etref_nasa(resp) ==
    IF resp.kind = "ConnectionError" THEN Raise("ConnectionError")
    ELSE IF resp.status = 200
    THEN IF resp.body # "json" THEN Raise("JSONDecodeError")
         ELSE Return(ParseEtref(resp))
    ELSE Return(None)

\* what the image catalog holds for the query: a surviving scene with a
\* regional mean, a surviving scene whose pixels are all masked, no scene,
\* or a catalog that cannot be reached
Catalogs ==
    {[state |-> "scene", mean |-> Float(R(50, 100))],
     [state |-> "scene", mean |-> Float(R(80, 100))],
     [state |-> "scene", mean |-> None],
     [state |-> "empty"],
     [state |-> "unreachable"]}

\* collection.first(): a client-side handle on a deferred server computation,
\* built without contacting the catalog, whatever the collection holds
first(catalog) == [tag |-> "ee.Image"]

\* mean_dict.get("NDVI").getInfo(): the deferred computation is evaluated
getInfo(catalog) ==
    CASE catalog.state = "scene"       -> Return(catalog.mean)
      [] catalog.state = "empty"       -> Raise("EEException")
      [] catalog.state = "unreachable" -> Raise("EEException")

fetch_ndvi(catalog) ==
    LET image == first(catalog)
    IN  IF IsNone(image) THEN Return(None)
        ELSE getInfo(catalog)

-----------------------------------------------------------------------------
(* AquaCrop Simulation Module: run_aquacrop_simulation_ospy                *)

Sessions == {"s1", "s2"}

\* the text typed into "Planting Date (YYYY/MM/DD)", field by field
DateText(y, s1, m, s2, d) == [y |-> y, s1 |-> s1, m |-> m, s2 |-> s2, d |-> d]

PlantingDates ==
    {DateText(2023, "/", 6, "/", 1), DateText(2023, "/", 7, "/", 1),
     DateText(2023, "-", 6, "-", 1), DateText(2023, "/", 2, "/", 30)}

FieldAreas == {R(1, 1), R(2, 1)}

DaysInMonth(y, m) ==
    IF m \in {4, 6, 9, 11} THEN 30
    ELSE IF m = 2
    THEN (IF (y % 4 = 0 /\ y % 100 # 0) \/ y % 400 = 0 THEN 29 ELSE 28)
    ELSE 31

\* datetime.strptime(planting_date, "%Y/%m/%d")
strptime(text) ==
    IF /\ text.s1 = "/" /\ text.s2 = "/"
       /\ text.m \in 1..12
       /\ text.d \in 1..DaysInMonth(text.y, text.m)
    THEN Return([y |-> text.y, m |-> text.m, d |-> text.d])
    ELSE Raise("ValueError")

\* weather_df.to_csv(index=True): a header line, then one line per record
to_csv(df) ==
    <<(<<"Date", "Tmax", "Tmin", "Precip", "Wind", "SolarRad">>)>> \o
    [i \in DOMAIN df.rows |->
        <<df.rows[i].Date, df.rows[i].Tmax, df.rows[i].Tmin,
          df.rows[i].Precip, df.rows[i].Wind, df.rows[i].SolarRad>>]

\* the value written to B4, or the AttributeError of None.to_csv
B4Value(weather_df) ==
    IF IsNone(weather_df) THEN Raise("AttributeError") ELSE Return(to_csv(weather_df))

\* Aquacrop_Model.xlsx as saved on disk: what a fresh open shows
SavedWorkbook ==
    [open |-> FALSE,
     B2 |-> DateText(2023, "/", 1, "/", 1), B3 |-> "Rice",
     B4 |-> <<(<<"Date", "Tmax", "Tmin", "Precip", "Wind", "SolarRad">>)>>,
     B5 |-> "Loam",
     out |-> Float(R(1, 2))]

\* the workbook's own model, recalculated from the Inputs cells into Outputs!B2
Simulate(book) == Float(R(book.B2.m + Len(book.B4) - 1, 2))

\* the Inputs cells a session writes
InputsOf(r) ==
    [SavedWorkbook EXCEPT !.B2 = r.planting_date, !.B3 = "Rice",
                          !.B4 = to_csv(r.weather_df), !.B5 = r.soil_type]

-----------------------------------------------------------------------------
(* Main Application: the "Run Integrated Simulation" handler               *)

IdleSession ==
    [pc |-> "idle", outcome |-> "none", exc_at |-> "none", exc |-> "none",
     planting_date |-> None, field_area |-> None, soil_type |-> "SandyLoam",
     weather_df |-> None, et0_value |-> None, ndvi_value |-> None,
     catalog |-> "none", called |-> FALSE, wb_bound |-> FALSE,
     ET_crop |-> None, aquacrop_out |-> None, shown |-> None]

\* faulty variant: "and" in place of "or"
InputsMissingAll(weather_df, et0_value, ndvi_value) ==
    IsNone(weather_df) /\ IsNone(et0_value) /\ IsNone(ndvi_value)
\* weather_df is None or et0_value is None or ndvi_value is None
InputsMissing(weather_df, et0_value, ndvi_value) ==
    IsNone(weather_df) \/ IsNone(et0_value) \/ IsNone(ndvi_value)

\* faulty variant: the estimate taken from ET0 and the NDVI-derived Kcb
integrated_results_from_kcb(simulated_ET_crop, field_area, et0_value, ndvi_value) ==
    LET est == calculate_irrigation(et0_value.v,
                   calculate_kcb_from_ndvi(ndvi_value.v, "Rice"), field_area, 75)
    IN  [tag |-> "results", ET0 |-> et0_value.v, NDVI |-> ndvi_value.v,
         ET_crop |-> simulated_ET_crop.v, field_area |-> field_area,
         net_irrigation |-> est.net_irrigation,
         gross_irrigation |-> est.gross_irrigation]
\* the results block: what the handler computes and writes to the page
integrated_results(simulated_ET_crop, field_area, et0_value, ndvi_value) ==
    LET net_irrigation   == RMul(RMul(simulated_ET_crop.v, field_area), R(10, 1))
        gross_irrigation == RDiv(net_irrigation, R(75, 100))
    IN  [tag |-> "results", ET0 |-> et0_value.v, NDVI |-> ndvi_value.v,
         ET_crop |-> simulated_ET_crop.v, field_area |-> field_area,
         net_irrigation |-> net_irrigation,
         gross_irrigation |-> gross_irrigation]

\* an exception leaves the handler: the script run ends with a traceback,
\* and nothing of the run is left but the widgets' values
Crashed(r, at, exc) ==
    [IdleSession EXCEPT !.pc = "done", !.outcome = "crashed", !.exc_at = at,
                        !.exc = exc, !.planting_date = r.planting_date,
                        !.field_area = r.field_area, !.catalog = r.catalog,
                        !.called = r.called]

\* the handler up to the first step on the workbook
HandlerStart(pd, fa, w, e, cat) ==
    LET r0 == [IdleSession EXCEPT !.planting_date = pd, !.field_area = fa]
        n  == fetch_ndvi(cat)
    IN  IF w.kind = "raise" THEN Crashed(r0, "fetch_full_weather_nasa", w.exc)
        ELSE LET r1 == [r0 EXCEPT !.weather_df = w.value]
        IN  IF e.kind = "raise" THEN Crashed(r1, "fetch_etref_nasa", e.exc)
        ELSE LET r2 == [r1 EXCEPT !.et0_value = e.value, !.catalog = cat.state]
        IN  IF n.kind = "raise" THEN Crashed(r2, "fetch_ndvi", n.exc)
        ELSE LET r3 == [r2 EXCEPT !.ndvi_value = n.value]
        IN  IF InputsMissing(r3.weather_df, r3.et0_value, r3.ndvi_value)
            THEN [r3 EXCEPT !.pc = "done", !.outcome = "inputs_missing"]
            ELSE LET r4 == [r3 EXCEPT !.called = TRUE]
            IN  IF strptime(pd).kind = "raise"
                THEN Crashed(r4, "run_aquacrop_simulation_ospy", strptime(pd).exc)
                ELSE [r4 EXCEPT !.pc = "xw_book"]

\* the except clause of the bridge returns None; the handler reports it
SimulationFailed(r, exc) ==
    [r EXCEPT !.pc = "done", !.outcome = "simulation_failed",
              !.exc = "Exception", !.ET_crop = None, !.aquacrop_out = None]

-----------------------------------------------------------------------------
(* The sessions and the shared workbook                                    *)

IdleKcb == [pc |-> "none"]
IdleIrr == [pc |-> "none"]

\* the spreadsheet tool and the workbook file, as found on the host
Environments ==
    {[installed |-> TRUE, outputs_sheet |-> TRUE],
     [installed |-> TRUE, outputs_sheet |-> FALSE],
     [installed |-> FALSE, outputs_sheet |-> FALSE]}

Init ==
    /\ sess = [s \in Sessions |-> IdleSession]
    /\ wb = SavedWorkbook
    /\ env \in Environments
    /\ kcbCall = IdleKcb
    /\ irrCall = IdleIrr

\* the button is pressed: the three gateways, the short-circuit, and the
\* bridge's date arithmetic ahead of its try block
RunIntegratedSimulation(s) ==
    /\ sess[s].pc = "idle"
    /\ \E pd \in PlantingDates, fa \in FieldAreas,
          w \in {fetch_full_weather_nasa(resp) : resp \in WeatherResponses},
          e \in {fetch_etref_nasa(resp) : resp \in EtrefResponses},
          cat \in Catalogs :
          sess' = [sess EXCEPT ![s] = HandlerStart(pd, fa, w, e, cat)]
    /\ UNCHANGED <<wb, env, kcbCall, irrCall>>

\* wb = xw.Book("Aquacrop_Model.xlsx"); sht_input = wb.sheets["Inputs"]
XwBook(s) ==
    /\ sess[s].pc = "xw_book"
    /\ IF ~env.installed
       THEN /\ sess' = [sess EXCEPT ![s] = SimulationFailed(@, "xw.Book")]
            /\ UNCHANGED wb
       ELSE /\ sess' = [sess EXCEPT ![s].pc = "write_B2", ![s].wb_bound = TRUE]
            /\ wb' = IF wb.open THEN wb ELSE [SavedWorkbook EXCEPT !.open = TRUE]
    /\ UNCHANGED <<env, kcbCall, irrCall>>

\* sht_input.range(cell).value = value, on a workbook that may be gone
WriteCell(s, at, cell, value, next) ==
    /\ sess[s].pc = at
    /\ IF ~wb.open \/ value.kind = "raise"
       THEN /\ sess' = [sess EXCEPT ![s] = SimulationFailed(@, cell)]
            /\ UNCHANGED wb
       ELSE /\ sess' = [sess EXCEPT ![s].pc = next]
            /\ wb' = [wb EXCEPT ![cell] = value.value]
    /\ UNCHANGED <<env, kcbCall, irrCall>>

WriteB2(s) == WriteCell(s, "write_B2", "B2", Return(sess[s].planting_date), "write_B3")
WriteB3(s) == WriteCell(s, "write_B3", "B3", Return("Rice"), "write_B4")
WriteB4(s) == WriteCell(s, "write_B4", "B4", B4Value(sess[s].weather_df), "write_B5")
WriteB5(s) == WriteCell(s, "write_B5", "B5", Return(sess[s].soil_type), "calculate")

\* wb.app.calculate()
Calculate(s) ==
    /\ sess[s].pc = "calculate"
    /\ IF ~wb.open
       THEN /\ sess' = [sess EXCEPT ![s] = SimulationFailed(@, "calculate")]
            /\ UNCHANGED wb
       ELSE /\ sess' = [sess EXCEPT ![s].pc = "read_B2"]
            /\ wb' = [wb EXCEPT !.out = Simulate(wb)]
    /\ UNCHANGED <<env, kcbCall, irrCall>>

\* sht_output = wb.sheets["Outputs"]; ET_crop = sht_output.range("B2").value
ReadOutput(s) ==
    /\ sess[s].pc = "read_B2"
    /\ IF ~wb.open \/ ~env.outputs_sheet
       THEN sess' = [sess EXCEPT ![s] = SimulationFailed(@, "Outputs")]
       ELSE sess' = [sess EXCEPT ![s].pc = "close", ![s].ET_crop = wb.out]
    /\ UNCHANGED <<wb, env, kcbCall, irrCall>>

\* wb.close(); return {"ET_crop": ET_crop}; then the handler's results block
CloseAndReturn(s) ==
    /\ sess[s].pc = "close"
    /\ IF ~wb.open
       THEN /\ sess' = [sess EXCEPT ![s] = SimulationFailed(@, "close")]
            /\ UNCHANGED wb
       ELSE /\ wb' = SavedWorkbook
            /\ IF IsNone(sess[s].et0_value) \/ IsNone(sess[s].ndvi_value)
               THEN \* f"{et0_value:.2f}" on None: TypeError
                    sess' = [sess EXCEPT ![s] = Crashed(@, "handler", "TypeError")]
               ELSE sess' = [sess EXCEPT
                 ![s].pc = "done",
                 ![s].outcome = "displayed",
                 ![s].aquacrop_out = [tag |-> "dict", ET_crop |-> sess[s].ET_crop],
                 ![s].shown = integrated_results(sess[s].ET_crop, sess[s].field_area,
                                  sess[s].et0_value, sess[s].ndvi_value)]
    /\ UNCHANGED <<env, kcbCall, irrCall>>

\* the page is used again: the script is re-run from the top on the next press
Rerun(s) ==
    /\ sess[s].pc = "done"
    /\ sess' = [sess EXCEPT ![s] = IdleSession]
    /\ UNCHANGED <<wb, env, kcbCall, irrCall>>

Next ==
    \E s \in Sessions :
        \/ Rerun(s)
        \/ RunIntegratedSimulation(s)
        \/ XwBook(s)
        \/ WriteB2(s)
        \/ WriteB3(s)
        \/ WriteB4(s)
        \/ WriteB5(s)
        \/ Calculate(s)
        \/ ReadOutput(s)
        \/ CloseAndReturn(s)

Spec == Init /\ [][Next]_vars

-----------------------------------------------------------------------------
(* calculate_kcb_from_ndvi and calculate_irrigation on their own           *)

MinNdviSteps == 4
MaxNdviSteps == 24
MaxEt0Halves == 12

\* ndvi from -0.20 to 1.20 in steps of 0.05
NdviDomain == {R(k, 20) : k \in (-MinNdviSteps)..MaxNdviSteps}
Crops      == {"Rice", "Custom", "Maize"}

KcbInit ==
    /\ sess = [s \in Sessions |-> IdleSession]
    /\ wb = SavedWorkbook
    /\ env = [installed |-> TRUE, outputs_sheet |-> TRUE]
    /\ irrCall = IdleIrr
    /\ kcbCall \in [pc : {"args"}, ndvi1 : NdviDomain, ndvi2 : NdviDomain,
                    crop : Crops, ret1 : {None}, ret2 : {None}]

\* two calls of calculate_kcb_from_ndvi for the same crop
CallKcb ==
    /\ kcbCall.pc = "args"
    /\ kcbCall' = [kcbCall EXCEPT
          !.pc = "returned",
          !.ret1 = Float(calculate_kcb_from_ndvi(kcbCall.ndvi1, kcbCall.crop)),
          !.ret2 = Float(calculate_kcb_from_ndvi(kcbCall.ndvi2, kcbCall.crop))]
    /\ UNCHANGED <<sess, wb, env, irrCall>>

KcbSpec == KcbInit /\ [][CallKcb]_vars

Et0Domain  == {R(k, 2) : k \in (-1)..MaxEt0Halves}
KcbDomain  == {calculate_kcb_from_ndvi(n, "Rice") : n \in {R(0, 1), R(1, 2), R(1, 1)}}
AreaDomain == {R(1, 10), R(1, 1), R(2, 1)}
EfficiencyDomain == {-50, -1, 0, 1, 50, 75, 100}

IrrInit ==
    /\ sess = [s \in Sessions |-> IdleSession]
    /\ wb = SavedWorkbook
    /\ env = [installed |-> TRUE, outputs_sheet |-> TRUE]
    /\ kcbCall = IdleKcb
    /\ irrCall \in [pc : {"args"}, et0 : Et0Domain, Kcb : KcbDomain,
                    field_area : AreaDomain, efficiency : EfficiencyDomain,
                    ret : {None}]

CallIrrigation ==
    /\ irrCall.pc = "args"
    /\ irrCall' = [irrCall EXCEPT
          !.pc = "returned",
          !.ret = calculate_irrigation(irrCall.et0, irrCall.Kcb,
                                       irrCall.field_area, irrCall.efficiency)]
    /\ UNCHANGED <<sess, wb, env, kcbCall>>

IrrSpec == IrrInit /\ [][CallIrrigation]_vars

-----------------------------------------------------------------------------
(* Properties of the handler and the gateways (Spec)                       *)

InBridge(s) ==
    sess[s].pc \in {"xw_book", "write_B2", "write_B3", "write_B4", "write_B5",
                    "calculate", "read_B2", "close"}

Displayed(s) == sess[s].outcome = "displayed"

CrashedAt(s, f) == sess[s].outcome = "crashed" /\ sess[s].exc_at = f

\* one of the session's three fetched inputs is the no-data outcome
AnyInputNone(s) ==
    \/ sess[s].weather_df.tag = "None"
    \/ sess[s].et0_value.tag = "None"
    \/ sess[s].ndvi_value.tag = "None"

\* C1: a run in which the weather table, ET0 or NDVI is the no-data outcome
\* never invokes the simulation bridge and computes or displays no
\* irrigation value; an estimate is displayed only in runs where all three
\* inputs and the bridge result are present.
C1_ShortCircuit ==
    \A s \in Sessions :
        /\ (sess[s].pc # "idle" /\ sess[s].outcome # "crashed" /\ AnyInputNone(s))
             => (~sess[s].called /\ IsNone(sess[s].shown)
                   /\ IsNone(sess[s].aquacrop_out)
                   /\ sess[s].outcome = "inputs_missing")
        /\ (\E f \in {"fetch_full_weather_nasa", "fetch_etref_nasa", "fetch_ndvi"} :
                CrashedAt(s, f))
             => (~sess[s].called /\ IsNone(sess[s].shown))
        /\ ~IsNone(sess[s].shown)
             => (/\ ~AnyInputNone(s)
                 /\ sess[s].called
                 /\ ~IsNone(sess[s].aquacrop_out))

\* a run that stopped at the short-circuit because only NDVI was missing
C1_Witness ==
    \E s \in Sessions :
        /\ sess[s].outcome = "inputs_missing"
        /\ IsNone(sess[s].ndvi_value)
        /\ ~IsNone(sess[s].weather_df)
        /\ ~IsNone(sess[s].et0_value)
        /\ \E t \in Sessions : Displayed(t)

\* C2: every invocation of run_aquacrop_simulation_ospy ends with a result
\* carrying ET_crop or with None; no exception escapes the function.
C2_BridgeNeverRaises ==
    \A s \in Sessions :
        (sess[s].called /\ sess[s].pc = "done")
            => /\ ~CrashedAt(s, "run_aquacrop_simulation_ospy")
               /\ sess[s].outcome \in {"displayed", "simulation_failed"}

\* C3: fetch_full_weather_nasa returns a fully populated table or None and
\* lets no network, status or parsing failure escape as an exception.
C3_WeatherPopulatedOrNone ==
    \A s \in Sessions :
        /\ ~CrashedAt(s, "fetch_full_weather_nasa")
        /\ ~IsNone(sess[s].weather_df) => FullyPopulated(sess[s].weather_df)

\* how fetch_ndvi ended for a session that called it
NdviPath(s) ==
    IF CrashedAt(s, "fetch_ndvi") THEN <<"raise", sess[s].exc>>
    ELSE <<"return", sess[s].ndvi_value.tag>>

\* C4: fetch_ndvi reports "no scene survived the filter" as an explicit
\* no-data result, on a path other than the one an upstream failure takes.
C4_EmptyDistinctFromFailure ==
    /\ \A s \in Sessions :
          sess[s].catalog = "empty" => NdviPath(s) = <<"return", "None">>
    /\ \A s, t \in Sessions :
          (sess[s].catalog = "empty" /\ sess[t].catalog = "unreachable")
              => NdviPath(s) # NdviPath(t)

\* C6: at most one session is between opening the workbook and returning,
\* and the ET_crop a session displays is the one computed from the inputs
\* that session wrote.
C6_SimulationsSerialized ==
    /\ \A s, t \in Sessions : (InBridge(s) /\ InBridge(t)) => s = t
    /\ \A s \in Sessions :
          Displayed(s) => sess[s].shown.ET_crop = Simulate(InputsOf(sess[s])).v

\* C9: once no invocation is in progress, a workbook that an invocation
\* opened is closed again, whether it returned a result or None.
C9_WorkbookClosedOnReturn ==
    ((\A s \in Sessions : ~InBridge(s)) /\ (\E s \in Sessions : sess[s].wb_bound))
        => ~wb.open

-----------------------------------------------------------------------------
(* Properties of the pure functions (KcbSpec, IrrSpec)                     *)

\* C7: for every crop name, calculate_kcb_from_ndvi returns Kcb_min for
\* ndvi <= VI_min, Kcb_max for ndvi >= VI_max, is non-decreasing in ndvi,
\* and so stays within [Kcb_min, Kcb_max].
C7_KcbClampedMonotone ==
    kcbCall.pc = "returned" =>
        LET p == profile(kcbCall.crop)
        IN  /\ RLe(kcbCall.ndvi1, p.VI_min) => kcbCall.ret1.v = p.Kcb_min
            /\ RLe(p.VI_max, kcbCall.ndvi1) => kcbCall.ret1.v = p.Kcb_max
            /\ RLe(kcbCall.ndvi1, kcbCall.ndvi2) => RLe(kcbCall.ret1.v, kcbCall.ret2.v)
            /\ RLe(p.Kcb_min, kcbCall.ret1.v) /\ RLe(kcbCall.ret1.v, p.Kcb_max)

\* an unknown crop, one ndvi below VI_min and one above VI_max
C7_Witness ==
    /\ kcbCall.pc = "returned"
    /\ kcbCall.crop = "Maize"
    /\ RLt(kcbCall.ndvi1, R(10, 100)) /\ kcbCall.ret1.v = R(15, 100)
    /\ RLt(R(90, 100), kcbCall.ndvi2) /\ kcbCall.ret2.v = R(1, 1)

\* C5: an efficiency <= 0 is answered with an error outcome, never with a
\* result tuple (for non-negative et0, Kcb, field_area).
C5_EfficiencyValidated ==
    (/\ irrCall.pc = "returned"
     /\ irrCall.efficiency <= 0
     /\ RLe(R(0, 1), irrCall.et0) /\ RLe(R(0, 1), irrCall.Kcb)
     /\ RLe(R(0, 1), irrCall.field_area))
        => irrCall.ret.kind = "raise"

\* C8: net = et0 * Kcb * field_area * 10; at efficiency 100 gross = net,
\* at efficiency 50 gross = 2 * net.
C8_EfficiencyIdentityAndDouble ==
    (irrCall.pc = "returned" /\ irrCall.efficiency \in {50, 100}) =>
        /\ irrCall.ret.kind = "return"
        /\ irrCall.ret.net_irrigation =
             RMul(RMul(RMul(irrCall.et0, irrCall.Kcb), irrCall.field_area), R(10, 1))
        /\ irrCall.efficiency = 100 =>
             irrCall.ret.gross_irrigation = irrCall.ret.net_irrigation
        /\ irrCall.efficiency = 50 =>
             irrCall.ret.gross_irrigation = RMul(R(2, 1), irrCall.ret.net_irrigation)

\* a call at efficiency 50 with a non-zero net requirement
C8_Witness ==
    /\ irrCall.pc = "returned"
    /\ irrCall.efficiency = 50
    /\ irrCall.ret.kind = "return"
    /\ RLt(R(0, 1), irrCall.ret.net_irrigation)
    /\ irrCall.ret.gross_irrigation = RMul(R(2, 1), irrCall.ret.net_irrigation)

=============================================================================
